---------------------------- MODULE Spec2Model ----------------------------
(***************************************************************************)
(* A model of main.py, the Instagram publisher service: the module-level   *)
(* configuration, the in-memory session record TOKENS, the /oauth/callback *)
(* handler (run by worker threads, so several can overlap), the /publish   *)
(* coroutine (run on the event loop, one at a time, with its blocking      *)
(* upstream calls and its polling wait), and the read-only routes.         *)
(*                                                                         *)
(* Python strings that the code only compares or tests for emptiness are   *)
(* TLA+ strings; Python's None is the string None below.  The two payload  *)
(* strings the code transforms (media_type, video_url) are sequences of    *)
(* one-character strings, so that upper(), strip() and startswith() are    *)
(* computed.  An optional payload key is <<>> (absent) or <<v>>.           *)
(***************************************************************************)
EXTENDS Integers, Sequences, FiniteSets, TLC

VARIABLES
    env,        \* the module constants read from the environment (lines 14-29)
    TOKENS,     \* the session record (lines 33-39)
    now,        \* time.time(), in seconds since the process started
    cb,         \* per worker thread: the /oauth/callback invocation it runs
    pub,        \* the /publish request on the event loop
    st,         \* the /status request of the observer thread
    misc,       \* the last response of /health, / and /login
    history,    \* the (user_token, chosen page) pairs that callbacks resolved
    nreq        \* how many requests the server has dispatched

vars == <<env, TOKENS, now, cb, pub, st, misc, history, nreq>>

(***************************************************************************)
(* Values                                                                  *)
(***************************************************************************)
None == "<None>"

\* token_obtained_at before any authorization (None at line 38).
NoTime == -1

\* Python truthiness of an Optional[str].
Truthy(x) == x # None /\ x # ""

\* How far the clock is followed.
MaxNow == 2600

\* How many requests a run dispatches.
MaxRequests == 3

Threads == {"t1", "t2"}

\* secrets.token_urlsafe(24), drawn once at import.
STATE_NONCE == "nonce-7f3a"

META_SCOPES == "pages_show_list,pages_read_engagement,instagram_basic,instagram_content_publish"

\* The environments the process can be started in: each variable unset
\* (getenv's default) or set.  PUBLIC_BASE_URL's default is a URL, and ""
\* is the value an operator gets by exporting it empty.
Envs ==
    [META_APP_ID : {"", "app-1"},
     META_APP_SECRET : {"", "s3cret"},
     META_REDIRECT_URI : {"", "https://cb.example/oauth/callback"},
     PUBLIC_BASE_URL : {"", "https://enviarvideo-production.up.railway.app"}]

_get_redirect_uri ==
    IF env.META_REDIRECT_URI # "" THEN env.META_REDIRECT_URI
    ELSE IF env.PUBLIC_BASE_URL # "" THEN env.PUBLIC_BASE_URL \o "/oauth/callback"
    ELSE ""

\* The list `missing` that _require_env builds; it raises 500 when non-empty.
_require_env_mut ==
    (IF env.META_APP_ID = "" THEN <<"META_APP_ID">> ELSE <<>>)
    \o (IF _get_redirect_uri = "" THEN <<"META_REDIRECT_URI ou PUBLIC_BASE_URL">> ELSE <<>>)
    \o (IF env.PUBLIC_BASE_URL = "" THEN <<"PUBLIC_BASE_URL">> ELSE <<>>)

_require_env ==
    (IF env.META_APP_ID = "" THEN <<"META_APP_ID">> ELSE <<>>)
    \o (IF env.META_APP_SECRET = "" THEN <<"META_APP_SECRET">> ELSE <<>>)
    \o (IF _get_redirect_uri = "" THEN <<"META_REDIRECT_URI ou PUBLIC_BASE_URL">> ELSE <<>>)
    \o (IF env.PUBLIC_BASE_URL = "" THEN <<"PUBLIC_BASE_URL">> ELSE <<>>)

\* An HTTP response of this service: a status and what the body carries.
Resp(status, body) == [status |-> status, body |-> body]
NoResp == Resp(0, <<>>)
EnvError == Resp(500, <<"Faltando variaveis de ambiente">> \o _require_env)

(***************************************************************************)
(* The upstream Graph API: what a call can answer.                         *)
(***************************************************************************)
\* _req raises HTTPException(400) when the upstream status is >= 400.
_req_failed(r) == r.status_code >= 400

Page(id, tok, iba) ==
    [id |-> id, access_token |-> tok, instagram_business_account |-> iba]

\* instagram_business_account is <<>> (missing, null or {}) or <<id>>.
PageA == Page("pg1", "P1", <<"ig1">>)
PageB == Page("pg2", "P2", <<"ig2">>)
PageNoIg == Page("pg3", "P3", <<>>)
PageNoTok == Page("pg4", None, <<"ig4">>)
PageEmptyIg == Page("pg5", "P5", <<"">>)
PageEmptyTok == Page("pg6", "", <<"ig6">>)
PageNullIgId == Page("pg7", "P7", <<None>>)

\* (p.get("instagram_business_account") or {}).get("id")
IgOf(p) ==
    IF p.instagram_business_account = <<>> THEN None
    ELSE p.instagram_business_account[1]

\* Line 130: if ig and p.get("access_token").
Qualifies_mut(p) == Truthy(IgOf(p))

Qualifies(p) == Truthy(IgOf(p)) /\ Truthy(p.access_token)

\* The index of the page _pick_first_valid_page returns, 0 when it raises.
RECURSIVE PickFrom(_, _)
PickFrom(pages, i) ==
    IF i > Len(pages) THEN 0
    ELSE IF Qualifies(pages[i]) THEN i
    ELSE PickFrom(pages, i + 1)

\* A resolution that takes the first page whatever it holds.
_pick_first_valid_page_mut(pages) == IF pages = <<>> THEN 0 ELSE 1

_pick_first_valid_page(pages) == PickFrom(pages, 1)

(***************************************************************************)
(* The session record                                                      *)
(***************************************************************************)
EmptyTokens ==
    [user_access_token |-> None, page_access_token |-> None,
     ig_user_id |-> None, page_id |-> None, token_obtained_at |-> NoTime]

\* /publish blocks the event loop from its first line to its return.
LoopFree == pub.pc \in {"idle", "done"}

\* The event loop accepts one more request.
Dispatch ==
    /\ LoopFree
    /\ nreq < MaxRequests
    /\ nreq' = nreq + 1

(***************************************************************************)
(* /oauth/callback, lines 225-260.  Sync def: FastAPI runs it on a worker  *)
(* thread, so invocations overlap and each statement is a step.            *)
(***************************************************************************)
CbIdle ==
    [pc |-> "idle", code |-> None, state |-> None, error |-> None,
     user_token |-> None, pages |-> <<>>, chosen |-> Page(None, None, <<>>),
     stamp |-> NoTime, shown |-> None,
     calls |-> <<>>, resp |-> NoResp]

CbAt(t, pc) == cb[t].pc = pc

\* Line 240: the state parameter is the anti-forgery token.
StateOk_mut(state) == state # None

StateOk(state) == state = STATE_NONCE

\* Line 234: if error.
HasError_mut(error) == error = "never"

HasError(error) == Truthy(error)

\* Lines 232-241: the checks that come before any upstream call.
CallbackBegin(t, code, state, error, error_description) ==
    /\ cb[t].pc \in {"idle", "done"}
    /\ Dispatch
    /\ LET fresh == [CbIdle EXCEPT !.code = code, !.state = state, !.error = error]
           fail(r) == [fresh EXCEPT !.pc = "done", !.resp = r]
       IN  cb' = [cb EXCEPT ![t] =
                IF _require_env # <<>> THEN fail(EnvError)
                ELSE IF HasError(error) THEN fail(Resp(400, <<"error", error, error_description>>))
                ELSE IF ~Truthy(code) THEN fail(Resp(400, <<"Callback sem 'code'.">>))
                ELSE IF ~StateOk(state) THEN fail(Resp(400, <<"State invalido (possivel CSRF).">>))
                ELSE [fresh EXCEPT !.pc = "exchange"]]
    /\ UNCHANGED <<env, TOKENS, now, pub, st, misc, history>>

\* Line 243, _exchange_code_for_user_token: one upstream call taking d seconds.
CallbackExchange(t, r, d) ==
    /\ CbAt(t, "exchange")
    /\ now + d <= MaxNow
    /\ now' = now + d
    /\ LET c == [cb[t] EXCEPT !.calls = Append(@, "oauth/access_token")]
       IN  cb' = [cb EXCEPT ![t] =
                IF _req_failed(r)
                  THEN [c EXCEPT !.pc = "done", !.resp = Resp(400, <<"upstream">>)]
                ELSE IF ~Truthy(r.access_token)
                  THEN [c EXCEPT !.pc = "done", !.resp = Resp(400, <<"Sem access_token">>)]
                ELSE [c EXCEPT !.pc = "accounts", !.user_token = r.access_token]]
    /\ UNCHANGED <<env, TOKENS, pub, st, misc, history, nreq>>

\* Lines 245-246, _get_pages_and_ig then _pick_first_valid_page; r.data is
\* js.get("data", []).
CallbackAccounts(t, r, d) ==
    /\ CbAt(t, "accounts")
    /\ now + d <= MaxNow
    /\ now' = now + d
    /\ LET c == [cb[t] EXCEPT !.calls = Append(@, "me/accounts"),
                               !.pages = IF _req_failed(r) THEN <<>> ELSE r.data]
           i == _pick_first_valid_page(r.data)
           ok == ~_req_failed(r) /\ r.data # <<>> /\ i # 0
       IN  /\ cb' = [cb EXCEPT ![t] =
                IF _req_failed(r)
                  THEN [c EXCEPT !.pc = "done", !.resp = Resp(400, <<"upstream">>)]
                ELSE IF r.data = <<>>
                  THEN [c EXCEPT !.pc = "done", !.resp = Resp(400, <<"Nao achei paginas.">>)]
                ELSE IF i = 0
                  THEN [c EXCEPT !.pc = "done", !.resp = Resp(400, <<"Nenhuma pagina">>)]
                ELSE [c EXCEPT !.pc = "w248", !.chosen = r.data[i]]]
           /\ history' = IF ok
                THEN history \cup {<<cb[t].user_token, r.data[i].access_token,
                                     r.data[i].id, IgOf(r.data[i])>>}
                ELSE history
    /\ UNCHANGED <<env, TOKENS, pub, st, misc, nreq>>

\* Lines 248-252: five separate stores into the shared dict.  Line 252
\* first evaluates int(time.time()) (CallbackT252) and then stores it.
Store(t, pc, next, field, value) ==
    /\ CbAt(t, pc)
    /\ TOKENS' = [TOKENS EXCEPT ![field] = value]
    /\ cb' = [cb EXCEPT ![t].pc = next]
    /\ UNCHANGED <<env, now, pub, st, misc, history, nreq>>

CallbackW248(t) == Store(t, "w248", "w249", "user_access_token", cb[t].user_token)
CallbackW249(t) == Store(t, "w249", "w250", "page_access_token", cb[t].chosen.access_token)
CallbackW250(t) == Store(t, "w250", "w251", "page_id", cb[t].chosen.id)
CallbackW251(t) == Store(t, "w251", "w252", "ig_user_id", IgOf(cb[t].chosen))

CallbackT252(t) ==
    /\ CbAt(t, "w252")
    /\ cb' = [cb EXCEPT ![t].pc = "s252", ![t].stamp = now]
    /\ UNCHANGED <<env, TOKENS, now, pub, st, misc, history, nreq>>

CallbackW252(t) == Store(t, "s252", "html", "token_obtained_at", cb[t].stamp)

\* Lines 254-260: the page shows what TOKENS holds when the f-string reads
\* it, page_id at line 256 and then ig_user_id at line 257.
CallbackR256(t) ==
    /\ CbAt(t, "html")
    /\ cb' = [cb EXCEPT ![t].pc = "l257", ![t].shown = TOKENS.page_id]
    /\ UNCHANGED <<env, TOKENS, now, pub, st, misc, history, nreq>>

CallbackReturn(t) ==
    /\ CbAt(t, "l257")
    /\ cb' = [cb EXCEPT ![t].pc = "done",
                        ![t].resp = Resp(200, <<"Autorizado", cb[t].shown, TOKENS.ig_user_id>>)]
    /\ UNCHANGED <<env, TOKENS, now, pub, st, misc, history, nreq>>

(***************************************************************************)
(* Python str operations on sequences of characters                        *)
(***************************************************************************)
\* The characters str.strip() removes (those for which str.isspace() holds),
\* among those a string here can hold: space, \t, \n, \f, \r, then \x0b,
\* \x1c, \x1d, \x1e, \x1f, \x85 and \xa0 written as the characters themselves.
\* The whitespace above U+00FF cannot be written in a string of this module.
Whitespace ==
    {" ", "\t", "\n", "\f", "\r",
     "", "", "", "", "", "", " "}

RECURSIVE lstrip(_)
lstrip(s) == IF s # <<>> /\ Head(s) \in Whitespace THEN lstrip(Tail(s)) ELSE s

RECURSIVE rstrip(_)
rstrip(s) ==
    IF s # <<>> /\ s[Len(s)] \in Whitespace THEN rstrip(SubSeq(s, 1, Len(s) - 1)) ELSE s

strip(s) == rstrip(lstrip(s))

\* str.upper() on the characters a string here can hold (U+0000-U+00FF):
\* a-z, and the Latin-1 letters \xe0-\xfe but \xf7, have a capital in the
\* same range; \xff and \xb5 have theirs above U+00FF, where a character is
\* written by its code point; \xdf becomes "SS".
LowerCase == <<"a","b","c","d","e","f","g","h","i","j","k","l","m",
               "n","o","p","q","r","s","t","u","v","w","x","y","z",
               "à","á","â","ã","ä","å","æ","ç","è","é","ê","ë","ì","í","î",
               "ï","ð","ñ","ò","ó","ô","õ","ö","ø","ù","ú","û","ü","ý","þ",
               "ÿ", "µ">>
UpperCase == <<"A","B","C","D","E","F","G","H","I","J","K","L","M",
               "N","O","P","Q","R","S","T","U","V","W","X","Y","Z",
               "À","Á","Â","Ã","Ä","Å","Æ","Ç","È","É","Ê","Ë","Ì","Í","Î",
               "Ï","Ð","Ñ","Ò","Ó","Ô","Õ","Ö","Ø","Ù","Ú","Û","Ü","Ý","Þ",
               "U+0178", "U+039C">>

\* The upper case of one character, a string of one or two characters.
UpperChar(c) ==
    IF \E i \in 1..Len(LowerCase) : LowerCase[i] = c
    THEN <<UpperCase[CHOOSE i \in 1..Len(LowerCase) : LowerCase[i] = c]>>
    ELSE IF c = "ß" THEN <<"S", "S">>
    ELSE <<c>>

RECURSIVE upper(_)
upper(s) == IF s = <<>> THEN <<>> ELSE UpperChar(Head(s)) \o upper(Tail(s))

startswith(s, prefix) ==
    Len(s) >= Len(prefix) /\ SubSeq(s, 1, Len(prefix)) = prefix

REELS == <<"R","E","E","L","S">>
VIDEO == <<"V","I","D","E","O">>
STORIES == <<"S","T","O","R","I","E","S">>
HttpsPrefix == <<"h","t","t","p","s",":","/","/">>

\* payload.get(k) or default, for a string-valued key.
GetOr(payload, k, default) ==
    IF payload[k] = <<>> \/ payload[k][1] = <<>> THEN default ELSE payload[k][1]

\* bool(payload.get(k, True))
GetFlag(payload, k) == IF payload[k] = <<>> THEN TRUE ELSE payload[k][1]

(***************************************************************************)
(* /publish, lines 277-322.  Async def with blocking calls: it runs on the *)
(* event loop, which dispatches nothing else until it returns, while the   *)
(* handlers already running on worker threads go on.                       *)
(***************************************************************************)
timeout_sec == 1200
poll_sec == 5

NoPayload ==
    [media_type |-> <<>>, video_url |-> <<>>, caption |-> <<>>,
     share_to_feed |-> <<>>, wait |-> <<>>]

PubIdle ==
    [pc |-> "idle", payload |-> NoPayload, media_type |-> <<>>, video_url |-> <<>>,
     caption |-> <<>>, share_to_feed |-> TRUE, do_wait |-> TRUE,
     ig |-> None, token |-> None, container_id |-> None, page_token |-> None,
     t0 |-> 0,
     last |-> None,
     calls |-> <<>>, failed |-> FALSE, resp |-> NoResp]

PubAt(pc) == pub.pc = pc

\* raise HTTPException: the request ends with this response.
PubFail_mut(p, status, body) == [p EXCEPT !.resp = Resp(status, body)]

PubFail(p, status, body) == [p EXCEPT !.pc = "done", !.resp = Resp(status, body)]

\* Line 289: not TOKENS[...], on one field.
Absent_mut(x) == x = ""

Absent(x) == ~Truthy(x)

\* Line 300: video_url.startswith("https://").
UrlOk_mut(video_url) == startswith(video_url, <<"h","t","t","p">>)

UrlOk(video_url) == startswith(video_url, HttpsPrefix)

\* Line 174: the statuses that end the wait with a failure.
FailedStatuses_mut == {"ERROR"}

FailedStatuses == {"ERROR", "EXPIRED"}

\* Line 176: time.time() - t0 > timeout_sec.
TimedOut_mut(t, t0) == t0 - t > timeout_sec

TimedOut(t, t0) == t - t0 > timeout_sec

NoSession == Resp(401, <<"Sem tokens. Acesse /login primeiro.">>)

\* An upstream call as the Graph API sees it, and the id it answered with
\* (None when it answered none).
Call(op, target, token, extra, answer) ==
    [op |-> op, target |-> target, token |-> token, extra |-> extra,
     answer |-> answer]

Answer(r) == IF _req_failed(r) THEN None ELSE r.id

\* A validation that tests the URL before the media type.
Validate_mut(p) ==
    LET media_type == strip(upper(GetOr(p.payload, "media_type", REELS)))
        video_url == strip(GetOr(p.payload, "video_url", <<>>))
        caption == strip(GetOr(p.payload, "caption", <<>>))
        q == [p EXCEPT !.media_type = media_type, !.video_url = video_url,
                       !.caption = caption,
                       !.share_to_feed = GetFlag(p.payload, "share_to_feed"),
                       !.do_wait = GetFlag(p.payload, "wait")]
    IN  IF ~UrlOk(video_url)
          THEN PubFail(q, 400, <<"video_url precisa ser https e publico (Meta tem que acessar).">>)
        ELSE IF media_type \notin {REELS, VIDEO, STORIES}
          THEN PubFail(q, 400, <<"media_type invalido. Use REELS, VIDEO ou STORIES.">>)
        ELSE [q EXCEPT !.pc = "l304"]

\* Lines 292-301 on the locals of p.
Validate(p) ==
    LET media_type == strip(upper(GetOr(p.payload, "media_type", REELS)))
        video_url == strip(GetOr(p.payload, "video_url", <<>>))
        caption == strip(GetOr(p.payload, "caption", <<>>))
        q == [p EXCEPT !.media_type = media_type, !.video_url = video_url,
                       !.caption = caption,
                       !.share_to_feed = GetFlag(p.payload, "share_to_feed"),
                       !.do_wait = GetFlag(p.payload, "wait")]
    IN  IF media_type \notin {REELS, VIDEO, STORIES}
          THEN PubFail(q, 400, <<"media_type invalido. Use REELS, VIDEO ou STORIES.">>)
        ELSE IF ~UrlOk(video_url)
          THEN PubFail(q, 400, <<"video_url precisa ser https e publico (Meta tem que acessar).">>)
        ELSE [q EXCEPT !.pc = "l304"]

\* Line 289, left operand: not TOKENS["page_access_token"].
PublishBegin(payload) ==
    /\ Dispatch
    /\ LET p == [PubIdle EXCEPT !.payload = payload]
       IN  pub' = IF Absent(TOKENS.page_access_token)
                    THEN PubFail(p, 401, NoSession.body)
                    ELSE [p EXCEPT !.pc = "l289"]
    /\ UNCHANGED <<env, TOKENS, now, cb, st, misc, history>>

\* Line 289, right operand, then lines 292-301.
PublishCheck ==
    /\ PubAt("l289")
    /\ pub' = IF Absent(TOKENS.ig_user_id)
                THEN PubFail(pub, 401, NoSession.body)
                ELSE Validate(pub)
    /\ UNCHANGED <<env, TOKENS, now, cb, st, misc, history, nreq>>

\* Line 304: the first argument of _create_container is read.
PublishArgCreate ==
    /\ PubAt("l304")
    /\ pub' = [pub EXCEPT !.pc = "l305", !.ig = TOKENS.ig_user_id]
    /\ UNCHANGED <<env, TOKENS, now, cb, st, misc, history, nreq>>

\* The form data of _create_container, lines 147-156.
CreateData_mut(media_type, video_url, caption, share_to_feed) ==
    <<media_type, video_url,
      IF caption # <<>> THEN <<caption>> ELSE <<>>,
      IF media_type = REELS
        THEN <<IF share_to_feed THEN "True" ELSE "False">>
        ELSE <<>>>>

CreateData(media_type, video_url, caption, share_to_feed) ==
    <<media_type, video_url,
      IF caption # <<>> THEN <<caption>> ELSE <<>>,
      IF media_type = REELS
        THEN <<IF share_to_feed THEN "true" ELSE "false">>
        ELSE <<>>>>

\* Line 305: the second argument of _create_container is read.
PublishTokCreate ==
    /\ PubAt("l305")
    /\ pub' = [pub EXCEPT !.pc = "create", !.token = TOKENS.page_access_token]
    /\ UNCHANGED <<env, TOKENS, now, cb, st, misc, history, nreq>>

\* _create_container, lines 146-162, on the arguments read before: the
\* upstream call returns after d seconds, during which the worker threads
\* have run.
PublishCreate(r, d) ==
    /\ PubAt("create")
    /\ now + d <= MaxNow
    /\ now' = now + d
    /\ LET c == [pub EXCEPT !.calls = Append(@,
                    Call("media", pub.ig, pub.token,
                         CreateData(pub.media_type, pub.video_url,
                                    pub.caption, pub.share_to_feed),
                         Answer(r)))]
       IN  pub' = IF _req_failed(r)
                    THEN [PubFail(c, 400, <<"upstream">>) EXCEPT !.failed = TRUE]
                  ELSE IF ~Truthy(r.id)
                    THEN [PubFail(c, 400, <<"Sem container id">>) EXCEPT !.failed = TRUE]
                  ELSE [c EXCEPT !.container_id = r.id,
                                 !.pc = IF pub.do_wait THEN "l313" ELSE "l315"]
    /\ UNCHANGED <<env, TOKENS, cb, st, misc, history, nreq>>

\* Line 313 reads the page token; lines 166-168 of _wait_container.
PublishWaitBegin ==
    /\ PubAt("l313")
    /\ pub' = [pub EXCEPT !.pc = "poll", !.t0 = now,
                          !.page_token = TOKENS.page_access_token]
    /\ UNCHANGED <<env, TOKENS, now, cb, st, misc, history, nreq>>

\* A poll whose answer is tested for the timeout before anything else.
PublishPoll_mut(r, d) ==
    /\ PubAt("poll")
    /\ now + d <= MaxNow
    /\ now' = now + d
    /\ LET e == Call("status", pub.container_id, pub.page_token, <<>>, None)
           c == [pub EXCEPT !.last = r.container_status,
                            !.calls = IF @ # <<>> /\ @[Len(@)] = e THEN @ ELSE Append(@, e)]
       IN  pub' = IF _req_failed(r)
                    THEN [PubFail(c, 400, <<"upstream">>) EXCEPT !.failed = TRUE, !.last = None]
                  ELSE IF TimedOut(now', pub.t0)
                    THEN [PubFail(c, 408, <<"Timeout esperando processamento do video.">>)
                            EXCEPT !.failed = TRUE]
                  ELSE IF r.container_status = "FINISHED"
                    THEN [c EXCEPT !.pc = "l315"]
                  ELSE IF r.container_status \in FailedStatuses
                    THEN [PubFail(c, 400, <<"Processamento falhou">>) EXCEPT !.failed = TRUE]
                  ELSE [c EXCEPT !.pc = "sleep"]
    /\ UNCHANGED <<env, TOKENS, cb, st, misc, history, nreq>>

\* Lines 170-177: one status poll and the tests on its answer.  Consecutive
\* polls are one entry of pub.calls.
PublishPoll(r, d) ==
    /\ PubAt("poll")
    /\ now + d <= MaxNow
    /\ now' = now + d
    /\ LET e == Call("status", pub.container_id, pub.page_token, <<>>, None)
           c == [pub EXCEPT !.last = r.container_status,
                            !.calls = IF @ # <<>> /\ @[Len(@)] = e THEN @ ELSE Append(@, e)]
       IN  pub' = IF _req_failed(r)
                    THEN [PubFail(c, 400, <<"upstream">>) EXCEPT !.failed = TRUE, !.last = None]
                  ELSE IF r.container_status = "FINISHED"
                    THEN [c EXCEPT !.pc = "l315"]
                  ELSE IF r.container_status \in FailedStatuses
                    THEN [PubFail(c, 400, <<"Processamento falhou">>) EXCEPT !.failed = TRUE]
                  ELSE IF TimedOut(now', pub.t0)
                    THEN [PubFail(c, 408, <<"Timeout esperando processamento do video.">>)
                            EXCEPT !.failed = TRUE]
                  ELSE [c EXCEPT !.pc = "sleep"]
    /\ UNCHANGED <<env, TOKENS, cb, st, misc, history, nreq>>

\* Line 178: time.sleep(poll_sec).
PublishSleep ==
    /\ PubAt("sleep")
    /\ now + poll_sec <= MaxNow
    /\ now' = now + poll_sec
    /\ pub' = [pub EXCEPT !.pc = "poll"]
    /\ UNCHANGED <<env, TOKENS, cb, st, misc, history, nreq>>

\* Line 315: the first argument of _publish_container is read.
PublishArgCommit ==
    /\ PubAt("l315")
    /\ pub' = [pub EXCEPT !.pc = "l315b", !.ig = TOKENS.ig_user_id]
    /\ UNCHANGED <<env, TOKENS, now, cb, st, misc, history, nreq>>

\* Line 315: the second argument of _publish_container is read.
PublishTokCommit ==
    /\ PubAt("l315b")
    /\ pub' = [pub EXCEPT !.pc = "commit", !.token = TOKENS.page_access_token]
    /\ UNCHANGED <<env, TOKENS, now, cb, st, misc, history, nreq>>

\* _publish_container, lines 182-188, on the arguments read before: the
\* upstream call returns after d seconds; lines 317-322 answer.
PublishCommit(r, d) ==
    /\ PubAt("commit")
    /\ now + d <= MaxNow
    /\ now' = now + d
    /\ LET c == [pub EXCEPT !.calls = Append(@,
                    Call("media_publish", pub.ig, pub.token,
                         <<pub.container_id>>, Answer(r)))]
       IN  pub' = IF _req_failed(r)
                    THEN [PubFail(c, 400, <<"upstream">>) EXCEPT !.failed = TRUE]
                  ELSE IF ~Truthy(r.id)
                    THEN [PubFail(c, 400, <<"Sem media id">>) EXCEPT !.failed = TRUE]
                  ELSE [c EXCEPT !.pc = "done",
                                 !.resp = Resp(200, <<"ok", pub.media_type,
                                                      pub.container_id, r.id>>)]
    /\ UNCHANGED <<env, TOKENS, cb, st, misc, history, nreq>>

(***************************************************************************)
(* /status, lines 263-274: a sync def on a worker thread; the dict display *)
(* reads the five TOKENS fields one after the other.                       *)
(***************************************************************************)
\* Beside the request in progress, st remembers which request it is and
\* whether the callback threads were at rest when it began (start), and the
\* same and the response of the /status call before it (prev), for
\* comparing two calls.
NoStart == [nreq |-> 0, quiet |-> FALSE]

StIdle ==
    [pc |-> "idle", out |-> <<>>, resp |-> NoResp, start |-> NoStart,
     prev |-> [resp |-> NoResp, start |-> NoStart]]

StatusRead(pc, next, value) ==
    /\ st.pc = pc
    /\ st' = [st EXCEPT !.pc = next, !.out = Append(@, value)]
    /\ UNCHANGED <<env, TOKENS, now, cb, pub, misc, history, nreq>>

\* Line 266, the first read.  With noted, st also records start and prev.
StatusBeginNoting(noted) ==
    /\ st.pc \in {"idle", "done"}
    /\ Dispatch
    /\ LET s == [StIdle EXCEPT !.pc = "l267",
                               !.out = <<Truthy(TOKENS.user_access_token)>>]
       IN  st' = IF noted
                   THEN [s EXCEPT
                           !.start = [nreq |-> nreq',
                                      quiet |-> \A t \in Threads :
                                                   cb[t].pc \in {"idle", "done"}],
                           !.prev = [resp |-> st.resp, start |-> st.start]]
                   ELSE s
    /\ UNCHANGED <<env, TOKENS, now, cb, pub, misc, history>>

StatusBegin == StatusBeginNoting(FALSE)

StatusL267 == StatusRead("l267", "l268", Truthy(TOKENS.page_access_token))
StatusL268 == StatusRead("l268", "l269", TOKENS.page_id)
StatusL269 == StatusRead("l269", "l270", TOKENS.ig_user_id)

\* A /status that also reports how many requests were served.
StatusReturn_mut ==
    /\ st.pc = "l270"
    /\ st' = [st EXCEPT !.pc = "done",
                        !.resp = Resp(200, st.out \o <<nreq, META_SCOPES,
                                                       _get_redirect_uri, env.PUBLIC_BASE_URL>>)]
    /\ UNCHANGED <<env, TOKENS, now, cb, pub, misc, history, nreq>>

StatusReturn ==
    /\ st.pc = "l270"
    /\ st' = [st EXCEPT !.pc = "done",
                        !.resp = Resp(200, st.out \o <<TOKENS.token_obtained_at, META_SCOPES,
                                                       _get_redirect_uri, env.PUBLIC_BASE_URL>>)]
    /\ UNCHANGED <<env, TOKENS, now, cb, pub, misc, history, nreq>>

(***************************************************************************)
(* /health, / and /login, lines 191-222: one step each.                    *)
(***************************************************************************)
Serve(route, resp) ==
    /\ Dispatch
    /\ misc' = [route |-> route, resp |-> resp]
    /\ UNCHANGED <<env, TOKENS, now, cb, pub, st, history>>

\* A /health that also resets the session.
Health_mut ==
    /\ Dispatch
    /\ misc' = [route |-> "/health", resp |-> Resp(200, <<TRUE, FALSE>>)]
    /\ TOKENS' = EmptyTokens
    /\ UNCHANGED <<env, now, cb, pub, st, history>>

Health == Serve("/health", Resp(200, <<TRUE, Truthy(TOKENS.user_access_token)>>))

Home == Serve("/", IF _require_env # <<>> THEN EnvError ELSE Resp(200, <<"IG Publisher (Railway)">>))

\* The redirect carries the dialog URL's query, with quote() applied to the
\* redirect URI and to the scopes.
Login ==
    Serve("/login",
          IF _require_env # <<>> THEN EnvError
          ELSE Resp(307, <<"https://www.facebook.com/dialog/oauth",
                           "client_id", env.META_APP_ID,
                           "redirect_uri", <<"quote", _get_redirect_uri>>,
                           "state", STATE_NONCE,
                           "scope", <<"quote", META_SCOPES>>,
                           "response_type", "code">>))

(***************************************************************************)
(* Inputs                                                                  *)
(***************************************************************************)
StatusCodes == {200, 400}

ExchangeResponses ==
    [status_code : StatusCodes, access_token : {None, "", "U1", "U2"}]

AccountsResponses ==
    [status_code : StatusCodes,
     data : {<<>>, <<PageNoIg>>, <<PageA>>, <<PageNoTok, PageB, PageA>>}]

ContainerResponses == [status_code : StatusCodes, id : {None, "", "c1", "c2"}]

MediaResponses == [status_code : StatusCodes, id : {None, "", "m1"}]

PollResponses ==
    [status_code : StatusCodes,
     container_status : {None, "IN_PROGRESS", "FINISHED", "ERROR", "EXPIRED"}]

Str(s) == <<s>>
HttpsUrl == HttpsPrefix \o <<"x">>
HttpUrl == <<"h","t","t","p",":","/","/","x">>

MediaTypeInputs ==
    {<<>>, Str(<<"R","e","e","l","s">>), Str(<<"v","i","d","e","o","">>),
     Str(STORIES), Str(<<"G","I","F">>)}

UrlInputs == {<<>>, Str(HttpsUrl), Str(<<" ">> \o HttpsUrl), Str(HttpUrl)}

\* Every media type with every URL, and every other key on a valid request.
\* The padded media type ends with \x1f, the caption begins with \x0b and
\* ends with a space, the padded URL begins with a space.
Payloads ==
    [media_type : MediaTypeInputs, video_url : UrlInputs,
     caption : {<<>>}, share_to_feed : {<<>>}, wait : {<<FALSE>>}]
    \cup
    [media_type : {<<>>, Str(<<"v","i","d","e","o","">>)},
     video_url : {Str(HttpsUrl)},
     caption : {<<>>, Str(<<"","o","i"," ">>)},
     share_to_feed : {<<>>, <<TRUE>>, <<FALSE>>},
     wait : {<<>>, <<TRUE>>, <<FALSE>>}]

\* The inputs of the runs in which every route takes part.
FewExchangeResponses ==
    {r \in ExchangeResponses :
        \/ r.status_code = 200 /\ r.access_token = "U1"
        \/ r.status_code = 400 /\ r.access_token = None}

FewAccountsResponses ==
    {r \in AccountsResponses :
        \/ r.status_code = 200 /\ r.data \in {<<PageA>>, <<PageNoTok, PageB, PageA>>, <<PageNoIg>>}
        \/ r.status_code = 400 /\ r.data = <<>>}

FewContainerResponses ==
    {r \in ContainerResponses :
        \/ r.status_code = 200 /\ r.id = "c1"
        \/ r.status_code = 400 /\ r.id = None}

FewMediaResponses ==
    {r \in MediaResponses :
        \/ r.status_code = 200 /\ r.id = "m1"
        \/ r.status_code = 400 /\ r.id = None}

FewPollResponses ==
    {r \in PollResponses :
        r.status_code = 200 /\ r.container_status \in {"IN_PROGRESS", "FINISHED", "ERROR"}}

FewPayloads ==
    {p \in Payloads :
        /\ p.media_type = <<>>
        /\ p.video_url \in {Str(HttpsUrl), Str(HttpUrl)}
        /\ p.caption = <<>>
        /\ p.share_to_feed = <<>>
        /\ p.wait \in {<<>>, <<FALSE>>}}

\* Upstream latencies, in seconds.
Slow == {timeout_sec \div 2}

(***************************************************************************)
(* The system                                                              *)
(***************************************************************************)
Init ==
    /\ env \in Envs
    /\ TOKENS = EmptyTokens
    /\ now = 0
    /\ cb = [t \in Threads |-> CbIdle]
    /\ pub = PubIdle
    /\ st = StIdle
    /\ misc = [route |-> "", resp |-> NoResp]
    /\ history = {}
    /\ nreq = 0

CallbackSteps(t) ==
    \/ CallbackW248(t)
    \/ CallbackW249(t)
    \/ CallbackW250(t)
    \/ CallbackW251(t)
    \/ CallbackT252(t)
    \/ CallbackW252(t)
    \/ CallbackR256(t)
    \/ CallbackReturn(t)

PublishSteps ==
    \/ PublishCheck
    \/ PublishArgCreate
    \/ PublishTokCreate
    \/ PublishWaitBegin
    \/ PublishSleep
    \/ PublishArgCommit
    \/ PublishTokCommit

Status ==
    \/ StatusBegin
    \/ StatusL267
    \/ StatusL268
    \/ StatusL269
    \/ StatusReturn

Codes == {None, "", "abc"}
States == {None, STATE_NONCE, "forged"}
Errors == {None, "", "access_denied"}
Descriptions == {None}

CallbackFew(t) ==
    \/ \E s \in {STATE_NONCE, "forged"} : CallbackBegin(t, "abc", s, None, None)
    \/ \E r \in FewExchangeResponses : CallbackExchange(t, r, 0)
    \/ \E r \in FewAccountsResponses : CallbackAccounts(t, r, 0)
    \/ CallbackSteps(t)

CallbackAll(t) ==
    \/ \E c \in Codes, s \in States, e \in Errors, ed \in Descriptions :
          CallbackBegin(t, c, s, e, ed)
    \/ \E r \in ExchangeResponses, d \in {0} : CallbackExchange(t, r, d)
    \/ \E r \in AccountsResponses, d \in {0} : CallbackAccounts(t, r, d)
    \/ CallbackSteps(t)

PublishFew ==
    \/ \E p \in FewPayloads : PublishBegin(p)
    \/ \E r \in FewContainerResponses : PublishCreate(r, 0)
    \/ \E r \in FewPollResponses, d \in Slow : PublishPoll(r, d)
    \/ \E r \in FewMediaResponses : PublishCommit(r, 0)
    \/ PublishSteps

PublishAll ==
    \/ \E p \in Payloads : PublishBegin(p)
    \/ \E r \in ContainerResponses : PublishCreate(r, 0)
    \/ \E r \in PollResponses, d \in Slow : PublishPoll(r, d)
    \/ \E r \in MediaResponses : PublishCommit(r, 0)
    \/ PublishSteps

\* Every route, with few inputs.
Next ==
    \/ CallbackFew("t1")
    \/ PublishFew
    \/ Status
    \/ Health
    \/ Home
    \/ Login

Spec == Init /\ [][Next]_vars

\* The authorization flow alone: two overlapping callbacks, every input.
NextAuth == CallbackAll("t1") \/ CallbackFew("t2")

SpecAuth == Init /\ [][NextAuth]_vars

\* Publishing beside the authorization flow, every payload: callbacks arrive
\* until one has resolved an account.
NextPublish ==
    \/ \E s \in {STATE_NONCE, "forged"} :
          history = {} /\ CallbackBegin("t1", "abc", s, None, None)
    \/ \E r \in FewExchangeResponses : CallbackExchange("t1", r, 0)
    \/ \E l \in {<<PageNoIg>>, <<PageNoTok, PageB, PageA>>} :
          CallbackAccounts("t1", [status_code |-> 200, data |-> l], 0)
    \/ CallbackSteps("t1")
    \/ PublishAll

SpecPublish == Init /\ [][NextPublish]_vars

\* The wait of a publish request beside the thread of a callback, which
\* runs at any time.  The first request is the callback, /publish arrives
\* at time 0, and every status poll answers after PollLatencies seconds:
\* a poll and the sleep after it last the request timeout of _req together.
ReqTimeout == 60

WaitPayloads ==
    {p \in Payloads :
        /\ p.media_type = <<>> /\ p.video_url = Str(HttpsUrl) /\ p.caption = <<>>
        /\ p.share_to_feed = <<>> /\ p.wait = <<>>}

\* The latency of a status poll, in seconds.
PollLatencies == {ReqTimeout - poll_sec}

NextWait ==
    \/ nreq = 0 /\ CallbackBegin("t1", "abc", STATE_NONCE, None, None)
    \/ CallbackExchange("t1", [status_code |-> 200, access_token |-> "U1"], 0)
    \/ CallbackAccounts("t1", [status_code |-> 200, data |-> <<PageA>>], 0)
    \/ CallbackSteps("t1")
    \/ \E p \in WaitPayloads : now = 0 /\ PublishBegin(p)
    \/ \E r \in FewContainerResponses : PublishCreate(r, 0)
    \/ \E r \in PollResponses, d \in PollLatencies : PublishPoll(r, d)
    \/ \E r \in FewMediaResponses : PublishCommit(r, 0)
    \/ PublishSteps

SpecWait == Init /\ [][NextWait]_vars

\* The request's thread keeps running: a poll that can be made is made (its
\* call returns, _req bounds it by a timeout) and a sleep that can end ends.
SpecWaitFair ==
    /\ SpecWait
    /\ WF_vars(\E r \in PollResponses, d \in PollLatencies : PublishPoll(r, d))
    /\ WF_vars(PublishSleep)

\* /status calls, compared with one another, beside the authorization flow.
NextStatus ==
    \/ CallbackFew("t1")
    \/ StatusBeginNoting(TRUE)
    \/ StatusL267
    \/ StatusL268
    \/ StatusL269
    \/ StatusReturn

SpecStatus == Init /\ [][NextStatus]_vars

\* Account resolution of the first callback on every page list of up to
\* MaxPages pages.
MaxPages == 3

PageKinds ==
    {PageA, PageB, PageNoIg, PageNoTok, PageEmptyIg, PageEmptyTok, PageNullIgId}

PageListsUpTo(n) == UNION {[1..k -> PageKinds] : k \in 0..n}

NextPick ==
    \/ nreq = 0 /\ CallbackBegin("t1", "abc", STATE_NONCE, None, None)
    \/ CallbackExchange("t1", [status_code |-> 200, access_token |-> "U1"], 0)
    \/ \E l \in PageListsUpTo(MaxPages) :
          CallbackAccounts("t1", [status_code |-> 200, data |-> l], 0)
    \/ CallbackSteps("t1")

SpecPick == Init /\ [][NextPick]_vars

(***************************************************************************)
(* Properties                                                              *)
(***************************************************************************)
Present(x) == x # None

ConfigComplete ==
    /\ env.META_APP_ID # ""
    /\ env.META_APP_SECRET # ""
    /\ env.PUBLIC_BASE_URL # ""

Quiescent == \A t \in Threads : cb[t].pc \in {"idle", "done"}

SessionTuple ==
    <<TOKENS.user_access_token, TOKENS.page_access_token,
      TOKENS.page_id, TOKENS.ig_user_id>>

\* C1: in every reachable state, the page token and the publishing account
\* id of the session are both present or both absent.
C1_BothOrNeither ==
    Present(TOKENS.page_access_token) <=> Present(TOKENS.ig_user_id)

\* C2: whenever no callback is between its stores and the session is not
\* empty, its user token, page token, page id and account id are those one
\* callback invocation resolved.
C2_OneCallback ==
    (Quiescent /\ SessionTuple # <<None, None, None, None>>)
        => SessionTuple \in history

\* C3 as stated: an invocation whose state is not the anti-forgery token has
\* ended with a 400 and made no upstream call.
C3_Always400 ==
    \A t \in Threads :
        (cb[t].pc # "idle" /\ cb[t].state # STATE_NONCE)
            => /\ cb[t].pc = "done"
               /\ cb[t].resp.status = 400
               /\ cb[t].calls = <<>>

\* C3, amended: such an invocation ends at once, with a 400 when the
\* configuration is complete and with the 500 of _require_env when it is
\* not; it makes no upstream call, and the step it takes leaves the session
\* record as it was.
C3_Rejected ==
    /\ [](\A t \in Threads :
            (cb[t].pc # "idle" /\ cb[t].state # STATE_NONCE)
                => /\ cb[t].pc = "done"
                   /\ cb[t].resp.status = IF ConfigComplete THEN 400 ELSE 500
                   /\ cb[t].calls = <<>>)
    /\ [][\A t \in Threads :
            (cb'[t] # cb[t] /\ cb'[t].state # STATE_NONCE) => TOKENS' = TOKENS]_vars

\* A forged state arrives with a code while a session exists, and is rejected.
C3_Witness ==
    /\ cb["t1"].pc = "done" /\ cb["t1"].state = "forged" /\ cb["t1"].code = "abc"
    /\ cb["t1"].resp.status = 400
    /\ Present(TOKENS.ig_user_id)

\* C4: as long as no callback has got through its token exchange and
\* account resolution, every /publish request has ended with the 401 of the
\* session check and has made no upstream call.
C4_NoSessionNoPublish ==
    history = {} =>
        \/ pub.pc = "idle"
        \/ pub.pc = "done" /\ pub.resp = NoSession /\ pub.calls = <<>>

\* A request that would otherwise be published is refused while the first
\* callback is still resolving the account.
C4_Witness ==
    /\ history = {}
    /\ cb["t1"].pc = "accounts"
    /\ pub.pc = "done" /\ pub.resp.status = 401
    /\ pub.payload.video_url = Str(HttpsUrl)

RawUrl == IF pub.payload.video_url = <<>> THEN <<>> ELSE pub.payload.video_url[1]

Ops == [i \in DOMAIN pub.calls |-> pub.calls[i].op]

\* C5 as stated: a request whose video_url does not start with https:// makes
\* no container-create call and ends with a 400.
C5_Always400 ==
    (pub.pc # "idle" /\ ~startswith(RawUrl, HttpsPrefix))
        => /\ \A i \in DOMAIN Ops : Ops[i] # "media"
           /\ pub.pc = "done" => pub.resp.status = 400

\* C5, amended: a request whose video_url, a missing one counting as empty
\* and surrounding whitespace not counting, does not start with https://
\* makes no upstream call and ends with a 400 or, when the session check
\* fails, with a 401; once the page token was found present, finding the
\* account id present too leads to the 400.
C5_TrimmedUrl ==
    /\ []((pub.pc # "idle" /\ ~startswith(strip(RawUrl), HttpsPrefix))
            => /\ pub.pc \in {"l289", "done"}
               /\ pub.calls = <<>>
               /\ pub.pc = "done" => pub.resp.status \in {400, 401})
    /\ [][(/\ pub.pc = "l289" /\ pub' # pub
           /\ ~startswith(strip(RawUrl), HttpsPrefix)
           /\ TOKENS.ig_user_id \notin {None, ""})
            => pub'.pc = "done" /\ pub'.resp.status = 400]_vars

\* An http:// URL with a valid media type is refused by the URL check.
C5_Witness ==
    /\ pub.pc = "done" /\ pub.resp.status = 400
    /\ pub.payload.video_url = Str(HttpUrl)
    /\ pub.payload.media_type = <<>>
    /\ pub.resp.body = <<"video_url precisa ser https e publico (Meta tem que acessar).">>

Waits == pub.pc # "idle" /\ pub.payload.wait # <<FALSE>>

\* C6: in a request that waits, the publish-commit call is prepared and made
\* only after a status poll of the container the create answered, the last
\* poll having answered FINISHED; once a poll
\* has answered ERROR or EXPIRED the request is over with a 400 and has made
\* no publish-commit call.
C6_CommitAfterFinished ==
    /\ (Waits /\ (pub.pc \in {"l315", "l315b", "commit"}
                    \/ \E i \in DOMAIN Ops : Ops[i] = "media_publish"))
          => /\ pub.last = "FINISHED"
             /\ \E j \in DOMAIN Ops :
                   /\ Ops[j] = "status"
                   /\ pub.calls[j].target = pub.calls[1].answer
                   /\ \A i \in DOMAIN Ops : Ops[i] = "media_publish" => j < i
    /\ pub.last \in {"ERROR", "EXPIRED"}
          => /\ pub.pc = "done" /\ pub.resp.status = 400
             /\ \A i \in DOMAIN Ops : Ops[i] # "media_publish"

\* A poll answered EXPIRED after an earlier poll had not finished: more
\* time has passed than one poll takes.
C6_Witness ==
    /\ pub.last = "EXPIRED" /\ pub.pc = "done" /\ now - pub.t0 > ReqTimeout
    /\ Ops = <<"media", "status">>

\* The media type a valid raw media_type stands for.
Canonical(raw) ==
    IF raw \in {<<>>, Str(<<"R","e","e","l","s">>)} THEN REELS
    ELSE IF raw = Str(<<"v","i","d","e","o","">>) THEN VIDEO
    ELSE STORIES

ValidRequest ==
    /\ pub.payload.media_type # Str(<<"G","I","F">>)
    /\ pub.payload.video_url \in {Str(HttpsUrl), Str(<<" ">> \o HttpsUrl)}

\* C8: a request with wait=false never polls: its upstream calls are a
\* container-create and then a publish-commit of the container the create
\* answered; a valid request that passed the session check has made the
\* create; for REELS with no share_to_feed key the create carries
\* share_to_feed="true"; and when both calls answered an id the response is
\* ok with the media type and those two ids.
C8_NoWaitFlow ==
    (pub.pc \notin {"idle", "l289"} /\ pub.payload.wait = <<FALSE>>)
        => /\ Ops \in {<<>>, <<"media">>, <<"media", "media_publish">>}
           /\ (pub.pc = "done" /\ ValidRequest /\ pub.resp.status # 401)
                 => Len(Ops) >= 1
           /\ (Len(Ops) >= 1 /\ Canonical(pub.payload.media_type) = REELS
                             /\ pub.payload.share_to_feed = <<>>)
                 => pub.calls[1].extra[4] = <<"true">>
           /\ Len(Ops) = 2 => pub.calls[2].extra = <<pub.calls[1].answer>>
           /\ (pub.pc = "done" /\ pub.resp.status = 200)
                 => /\ Len(Ops) = 2
                    /\ pub.resp.body = <<"ok", Canonical(pub.payload.media_type),
                                         pub.calls[1].answer, pub.calls[2].answer>>
           /\ (Len(Ops) = 2 /\ pub.calls[2].answer \notin {None, ""})
                 => pub.pc = "done" /\ pub.resp.status = 200

\* The scenario of the specification: REELS by default, wait=false, published.
C8_Witness ==
    /\ pub.pc = "done" /\ pub.resp.status = 200
    /\ pub.payload.wait = <<FALSE>> /\ pub.payload.media_type = <<>>
    /\ pub.payload.share_to_feed = <<>>
    /\ pub.resp.body = <<"ok", REELS, "c1", "m1">>

\* C7: a wait that has begun ends; a request that ends right after a poll
\* that answered successfully with a status that is none of FINISHED, ERROR
\* and EXPIRED ends with a 408; a 408 is raised only when more than
\* timeout_sec seconds have passed since the wait began; and every sleep
\* between two polls lasts poll_sec seconds.
C7_WaitEnds ==
    /\ (pub.pc = "poll") ~> (pub.pc \notin {"poll", "sleep"})
    /\ []((/\ pub.pc = "done" /\ Len(Ops) = 2 /\ Ops[2] = "status"
           /\ pub.resp.body # <<"upstream">>
           /\ pub.last \notin {"FINISHED", "ERROR", "EXPIRED"})
            => pub.resp.status = 408)
    /\ [][(pub'.resp.status = 408 /\ pub.resp.status # 408)
            => now' - pub.t0 > timeout_sec]_vars
    /\ [][(pub.pc = "sleep" /\ pub'.pc = "poll") => now' - now = poll_sec]_vars

\* No poll was terminal: the last one began when the timeout had just
\* elapsed, not yet exceeded, and the wait ended with a 408 at its answer.
C7_Witness ==
    /\ pub.pc = "done" /\ pub.resp.status = 408
    /\ now - pub.t0 = timeout_sec + ReqTimeout - poll_sec

Good(p) ==
    /\ p.instagram_business_account \notin {<<>>, <<None>>, <<"">>}
    /\ p.access_token \notin {None, ""}

\* C9: a callback that got past account resolution chose the first page of
\* the upstream list with a non-empty account id and a non-empty access
\* token; on a non-empty list, resolution fails (with a 400) exactly when no
\* page has both.
C9_FirstQualifying ==
    LET c == cb["t1"]
        resolved == c.pc \in {"w248", "w249", "w250", "w251", "w252", "s252",
                               "html", "l257"}
                        \/ (c.pc = "done" /\ c.resp.status = 200)
        refused == c.pc = "done" /\ c.resp = Resp(400, <<"Nenhuma pagina">>)
    IN  /\ resolved =>
              \E i \in 1..Len(c.pages) :
                 /\ Good(c.pages[i])
                 /\ \A j \in 1..(i - 1) : ~Good(c.pages[j])
                 /\ c.chosen = c.pages[i]
        /\ (Len(c.calls) = 2 /\ c.pages # <<>>) =>
              /\ refused <=> \A i \in 1..Len(c.pages) : ~Good(c.pages[i])
              /\ refused \/ resolved

\* Two pages that lack a field come before the one that is chosen.
C9_Witness ==
    /\ cb["t1"].pc = "w248"
    /\ cb["t1"].pages = <<PageNoTok, PageEmptyIg, PageB>>
    /\ cb["t1"].chosen = PageB

\* C10: while a required setting is missing, the session stays empty, no
\* request of /oauth/callback or /publish makes an upstream call, every
\* callback has ended with a 500, and / and /login answer 500.
C10_NoWorkWithoutConfig ==
    ~ConfigComplete =>
        /\ TOKENS = EmptyTokens
        /\ \A t \in Threads :
              /\ cb[t].calls = <<>>
              /\ cb[t].pc \in {"idle", "done"}
              /\ cb[t].pc = "done" => cb[t].resp.status = 500
        /\ pub.calls = <<>>
        /\ pub.pc \in {"idle", "done"}
        /\ misc.route \in {"/", "/login"} => misc.resp.status = 500

\* Only the client secret is missing: a well-formed callback got the 500,
\* /publish found no session, /login refused.
C10_Witness ==
    /\ env.META_APP_SECRET = "" /\ env.META_APP_ID # "" /\ env.PUBLIC_BASE_URL # ""
    /\ cb["t1"].pc = "done" /\ cb["t1"].state = STATE_NONCE
    /\ cb["t1"].resp.status = 500
    /\ pub.pc = "done" /\ pub.resp.status = 401
    /\ misc.route = "/login" /\ misc.resp.status = 500

\* C11 as stated: an invocation that carries a non-empty error parameter has
\* ended with a 400 that reports the error and has made no upstream call.
C11_Always400 ==
    \A t \in Threads :
        (cb[t].pc # "idle" /\ cb[t].error \notin {None, ""})
            => /\ cb[t].pc = "done"
               /\ cb[t].resp.status = 400
               /\ cb[t].calls = <<>>

\* C11, amended: such an invocation ends at once and makes no upstream call,
\* whatever its code and state; with the configuration complete it answers
\* 400 with the error it was given, and with a setting missing the 500 of
\* _require_env; the step it takes leaves the session record as it was.
C11_ErrorRejected ==
    /\ [](\A t \in Threads :
            (cb[t].pc # "idle" /\ cb[t].error \notin {None, ""})
                => /\ cb[t].pc = "done"
                   /\ cb[t].calls = <<>>
                   /\ IF ConfigComplete
                        THEN cb[t].resp = Resp(400, <<"error", cb[t].error, None>>)
                        ELSE cb[t].resp.status = 500)
    /\ [][\A t \in Threads :
            (cb'[t] # cb[t] /\ cb'[t].error \notin {None, ""}) => TOKENS' = TOKENS]_vars

\* Consent is denied on a callback that also carries a code and the right
\* state, while a session exists.
C11_Witness ==
    /\ cb["t1"].pc = "done" /\ cb["t1"].error = "access_denied"
    /\ cb["t1"].code = "abc" /\ cb["t1"].state = STATE_NONCE
    /\ cb["t1"].resp.status = 400
    /\ Present(TOKENS.ig_user_id)

CountOp(op) == Cardinality({i \in DOMAIN Ops : Ops[i] = op})

\* C12: a /publish request makes at most one container-create and at most
\* one publish-commit; once an upstream call of it has failed (status >= 400
\* or no id) the request is over with an error and that call is its last;
\* and it answers ok only after a create that answered an id, then, when it
\* waits, a poll that answered FINISHED, then a commit that answered an id.
C12_FirstFailureAborts ==
    /\ CountOp("media") <= 1 /\ CountOp("media_publish") <= 1
    /\ pub.failed => pub.pc = "done" /\ pub.resp.status \in {400, 408}
    /\ \A i \in DOMAIN pub.calls :
          (pub.calls[i].op # "status" /\ pub.calls[i].answer \in {None, ""})
              => /\ i = Len(pub.calls)
                 /\ pub.pc = "done" /\ pub.resp.status = 400
    /\ (pub.pc = "done" /\ pub.resp.status = 200)
          => /\ ~pub.failed
             /\ Ops = IF pub.do_wait THEN <<"media", "status", "media_publish">>
                                     ELSE <<"media", "media_publish">>
             /\ pub.calls[1].answer \notin {None, ""}
             /\ pub.calls[Len(Ops)].answer \notin {None, ""}
             /\ pub.do_wait => pub.last = "FINISHED"

\* The commit fails after a wait that finished: the three steps were made
\* once each and the request ends with the upstream error.
C12_Witness ==
    /\ pub.pc = "done" /\ pub.resp = Resp(400, <<"upstream">>)
    /\ Ops = <<"media", "status", "media_publish">>
    /\ pub.last = "FINISHED" /\ pub.calls[3].answer = None

\* A callback thread that is at one of the stores of lines 248-252.
SessionWriter(t) == cb[t].pc \in {"w248", "w249", "w250", "w251", "s252"}

\* C13: no step of /health, /, /login, /status or /publish changes a field of
\* the session record, and a step that changes one is a store of a running
\* /oauth/callback.
C13_OnlyCallbackWrites ==
    [][/\ (pub' # pub \/ st' # st \/ misc' # misc) => TOKENS' = TOKENS
       /\ TOKENS' # TOKENS =>
             \E t \in Threads : SessionWriter(t) /\ cb'[t].pc # cb[t].pc]_vars

\* With a session in place a /publish was refused upstream and a /status was
\* answered, and the session is the one the callback stored.
C13_Witness ==
    /\ pub.pc = "done" /\ pub.resp.status = 400 /\ Len(pub.calls) = 1
    /\ st.pc = "done" /\ st.resp.status = 200
    /\ cb["t1"].pc = "done" /\ cb["t1"].resp.status = 200
    /\ TOKENS = [user_access_token |-> "U1", page_access_token |-> "P1",
                 ig_user_id |-> "ig1", page_id |-> "pg1",
                 token_obtained_at |-> 0]

\* C14: when a /status call is the request dispatched right after another
\* /status call, no callback having been in progress when the first began
\* nor any other request having been dispatched since, the two answer the
\* same output; and no step of /status changes the session record or the
\* configuration, which are all that /status reports.
C14_StatusIdempotent ==
    /\ []((/\ st.pc = "done"
           /\ st.prev.resp # NoResp
           /\ st.prev.start.quiet
           /\ nreq = st.prev.start.nreq + 1)
            => st.resp = st.prev.resp)
    /\ [][st' # st => (TOKENS' = TOKENS /\ env' = env)]_vars

\* Two /status calls in a row after an authorization: both report the session.
C14_Witness ==
    /\ st.pc = "done" /\ st.prev.resp # NoResp
    /\ st.prev.start.quiet /\ nreq = st.prev.start.nreq + 1
    /\ st.resp.body[3] = "pg1" /\ st.prev.resp.body[3] = "pg1"
    /\ st.resp.body[5] = 0

\* The session check of /publish would pass.
Established == Truthy(TOKENS.page_access_token) /\ Truthy(TOKENS.ig_user_id)

\* C15: once a callback has answered 200 the page token and the account id
\* are present; no step makes them absent again; and no step that /publish
\* takes while they are present answers the 401 of the session check.
C15_NeverCleared ==
    /\ []((\E t \in Threads : cb[t].pc = "done" /\ cb[t].resp.status = 200)
            => Established)
    /\ [][Established => Established']_vars
    /\ [][(Established /\ pub' # pub) => pub'.resp.status # 401]_vars

\* After an authorization, a second callback found no usable page and failed,
\* and the /publish that came next was published with the first session.
C15_Witness ==
    /\ cb["t1"].pc = "done" /\ cb["t1"].resp = Resp(400, <<"Nenhuma pagina">>)
    /\ TOKENS.page_access_token = "P1" /\ TOKENS.ig_user_id = "ig1"
    /\ pub.pc = "done" /\ pub.resp.status = 200

\* The invocation of thread t got through the token exchange and the account
\* resolution: it made both calls and holds a user token and a qualifying page.
Resolved(t) ==
    /\ cb[t].calls = <<"oauth/access_token", "me/accounts">>
    /\ Truthy(cb[t].user_token)
    /\ cb[t].pages # <<>>
    /\ Qualifies(cb[t].chosen)

\* C16: a callback step that changes the session record is a store of an
\* invocation that got through token exchange and account resolution; an
\* invocation that has reached its stores ends with a 200 and no other way;
\* so an invocation that ends with a failure took no step that changed the
\* session record, and the step that ends it changes nothing of it either.
C16_FailedCallbackWritesNothing ==
    [][\A t \in Threads :
          /\ (cb'[t] # cb[t] /\ TOKENS' # TOKENS)
                => SessionWriter(t) /\ Resolved(t)
          /\ (SessionWriter(t) \/ cb[t].pc \in {"w252", "html", "l257"})
                => /\ cb'[t].pc \in {"w248", "w249", "w250", "w251", "w252", "s252",
                                     "html", "l257", "done"}
                   /\ cb'[t].pc = "done" => cb'[t].resp.status = 200
          /\ (cb'[t] # cb[t] /\ cb'[t].pc = "done" /\ cb'[t].resp.status # 200)
                => /\ TOKENS' = TOKENS
                   /\ cb[t].pc \in {"idle", "done", "exchange", "accounts"}]_vars

\* A re-authorization whose token exchange answered no token has failed and
\* the session of the first authorization is intact.
C16_Witness ==
    /\ cb["t1"].pc = "done" /\ cb["t1"].resp = Resp(400, <<"Sem access_token">>)
    /\ cb["t2"].pc = "idle"
    /\ TOKENS = [user_access_token |-> "U1", page_access_token |-> "P1",
                 ig_user_id |-> "ig1", page_id |-> "pg1",
                 token_obtained_at |-> 0]

\* C17: every upstream call of a /publish request carries the page token that
\* its container-create carried, and its publish-commit goes to the account
\* its container-create went to.
C17_OneSession ==
    \A i \in DOMAIN pub.calls :
        /\ pub.calls[i].token = pub.calls[1].token
        /\ pub.calls[i].op = "media_publish"
              => pub.calls[i].target = pub.calls[1].target

\* C18: a wait that is over has polled; a poll that answers FINISHED ends
\* the wait and the request goes on to the commit, however late it is, and
\* one that answers ERROR or EXPIRED ends the request with a 400, however
\* late; a 408 is raised only by a poll step, on an answer that is none of
\* FINISHED, ERROR and EXPIRED.
C18_PollOrder ==
    /\ []((\/ pub.pc \in {"sleep", "l315", "l315b", "commit"} /\ pub.do_wait
           \/ pub.resp.status = 408)
            => \E i \in DOMAIN Ops : Ops[i] = "status")
    /\ [][pub.pc = "l313" => pub'.pc \in {"l313", "poll"}]_vars
    /\ [][(pub.pc = "poll" /\ pub' # pub /\ ~pub'.failed)
            => IF pub'.last = "FINISHED" THEN pub'.pc = "l315" ELSE pub'.pc = "sleep"]_vars
    /\ [][(pub.pc = "poll" /\ pub' # pub /\ pub'.last \in {"ERROR", "EXPIRED"})
            => pub'.resp.status = 400]_vars
    /\ [][(pub'.resp.status = 408 /\ pub.resp.status # 408)
            => /\ pub.pc = "poll"
               /\ pub'.last \notin {"FINISHED", "ERROR", "EXPIRED"}]_vars

\* The poll that answered FINISHED came back after the timeout had passed,
\* and the request went on to the commit.
C18_Witness ==
    /\ pub.pc = "l315" /\ pub.last = "FINISHED"
    /\ now - pub.t0 > timeout_sec

\* The one media type of the inputs that stands for none of the three.
BadMedia == pub.payload.media_type = Str(<<"G","I","F">>)

MediaError == Resp(400, <<"media_type invalido. Use REELS, VIDEO ou STORIES.">>)

\* C19: a request that passed the session check and whose media type is not
\* one of the three has ended with the media-type 400, whatever its URL, and
\* has made no upstream call; one whose media type is one of the three when
\* upper-cased and trimmed, or is missing, never gets that error; a request
\* that finds the page token or the account id absent ends with the 401,
\* whatever its payload; and a 401 comes with no upstream call.
C19_ValidationOrder ==
    /\ []((pub.pc \notin {"idle", "l289"} /\ pub.resp.status # 401 /\ BadMedia)
            => pub.pc = "done" /\ pub.resp = MediaError /\ pub.calls = <<>>)
    /\ [](~BadMedia => pub.resp # MediaError)
    /\ [](pub.resp.status = 401
            => pub.pc = "done" /\ pub.resp = NoSession /\ pub.calls = <<>>)
    /\ [][(/\ pub' # pub
           /\ \/ pub.pc \in {"idle", "done"} /\ TOKENS.page_access_token \in {None, ""}
              \/ pub.pc = "l289" /\ TOKENS.ig_user_id \in {None, ""})
            => pub'.pc = "done" /\ pub'.resp = NoSession]_vars

\* With a session in place, a request with an unknown media type and a URL
\* that is not https is refused for its media type.
C19_Witness ==
    /\ pub.pc = "done" /\ pub.resp = MediaError
    /\ BadMedia /\ pub.payload.video_url = Str(HttpUrl)
    /\ Established

=============================================================================
